---------------------------- MODULE Spec2Model ----------------------------
(***************************************************************************)
(* Node lifecycle of the scheduler-k3s plugin                              *)
(* (plugins/scheduler-k3s/subcommands.go): CommandInitialize,              *)
(* CommandClusterAdd, CommandClusterList, CommandClusterRemove,            *)
(* CommandSet and CommandUninstall, each as a sequence of steps against    *)
(* the local host, the remote hosts and the Cluster API.                   *)
(*                                                                         *)
(* Text that the code formats or parses (token, node name, address,        *)
(* remote host) is a sequence of one-character strings; a literal that the *)
(* code only passes on (a flag) is the one-element sequence L("--flag").   *)
(***************************************************************************)
EXTENDS Integers, Sequences, FiniteSets, TLC

\* ------------------------------------------------------------------ bounds
\* how many commands are run one after the other
MaxRuns == 3
\* how many nodes (visible or still registering) the cluster may hold
MaxNodes == 2

\* ------------------------------------------------------- program constants
\* n := 5, the number of random bytes of a token and of a node-name suffix
n == 5
\* RetryCount: 20, the retry budget CommandClusterAdd gives the waiter
RetryCount == 20
\* len(k3sVersionParts) != 4
VersionFields == 4
\* resp.StatusCode() != 200
StatusOK == 200

\* ------------------------------------------------------------------- text
L(s) == <<s>>

EmptyStr == <<>>

HexDigits ==
    <<"0", "1", "2", "3", "4", "5", "6", "7", "8", "9", "A", "B", "C", "D", "E", "F">>

UpperCase ==
    <<"A", "B", "C", "D", "E", "F", "G", "H", "I", "J", "K", "L", "M",
      "N", "O", "P", "Q", "R", "S", "T", "U", "V", "W", "X", "Y", "Z">>

LowerCase ==
    <<"a", "b", "c", "d", "e", "f", "g", "h", "i", "j", "k", "l", "m",
      "n", "o", "p", "q", "r", "s", "t", "u", "v", "w", "x", "y", "z">>

\* the lower-case letter of each upper-case letter
LowerOf ==
    [c \in {UpperCase[k] : k \in 1..Len(UpperCase)} |->
        LowerCase[CHOOSE k \in 1..Len(UpperCase) : UpperCase[k] = c]]

\* strings.ToLower
ToLower(s) ==
    [i \in 1..Len(s) |-> IF s[i] \in DOMAIN LowerOf THEN LowerOf[s[i]] ELSE s[i]]

\* strings.ReplaceAll(s, old, new) for a one-character old and new
ReplaceAll(s, old, new) ==
    [i \in 1..Len(s) |-> IF s[i] = old THEN new ELSE s[i]]

\* fmt.Sprintf("%X", b) of a byte slice: two upper-case hex digits per byte
RECURSIVE SprintfX(_)
SprintfX(b) ==
    IF b = <<>> THEN <<>>
    ELSE <<HexDigits[(Head(b) \div 16) + 1], HexDigits[(Head(b) % 16) + 1]>>
         \o SprintfX(Tail(b))

\* the byte slices rand.Read may fill in (each of length n)
RandBytes ==
    {[k \in 1..n |-> (i * 171 + k * 59) % 256] : i \in {1, 2}}

\* the token CommandInitialize generates from b
GenToken(b) == ToLower(SprintfX(b))

\* a variant of GenNodeName that keeps the dots of the seed
GenNodeNameDotted(seed, b) ==
    ToLower(<<"i", "p", "-">> \o seed \o <<"-">> \o SprintfX(b))

\* the node name both commands derive from a seed (address or hostname) and b
GenNodeName(seed, b) ==
    ReplaceAll(ToLower(<<"i", "p", "-">> \o seed \o <<"-">> \o SprintfX(b)), ".", "-")


\* Prefix / suffix of a text
Take(s, k) == SubSeq(s, 1, k)

Drop(s, k) == SubSeq(s, k + 1, Len(s))

\* first / last position of character c in s, 0 when absent
IndexOf(s, c) ==
    IF \E i \in 1..Len(s) : s[i] = c
    THEN CHOOSE i \in 1..Len(s) : s[i] = c /\ \A j \in 1..(i - 1) : s[j] # c
    ELSE 0

LastIndexOf(s, c) ==
    IF \E i \in 1..Len(s) : s[i] = c
    THEN CHOOSE i \in 1..Len(s) : s[i] = c /\ \A j \in (i + 1)..Len(s) : s[j] # c
    ELSE 0

IsLetter(c) ==
    \E k \in 1..Len(UpperCase) : c = UpperCase[k] \/ c = LowerCase[k]

IsSchemeExtra(c) == c \in {"0", "1", "2", "3", "4", "5", "6", "7", "8", "9", "+", "-", "."}

\* net/url getScheme: the position of the ':' that ends a scheme, 0 when the
\* text has no scheme
SchemeEnd(s) ==
    LET stop == {i \in 1..Len(s) : ~IsLetter(s[i])}
        bad  == {i \in stop : ~(IsSchemeExtra(s[i]) /\ i > 1)}
        k    == IF bad = {} THEN 0 ELSE CHOOSE i \in bad : \A j \in bad : i <= j
    IN  IF k > 1 /\ s[k] = ":" THEN k ELSE 0

\* url.Parse(remoteHost): the error cases this model distinguishes are a leading
\* ':' and a first path segment that holds a ':' in a text without scheme
UrlParseFails(s) ==
    \/ (s # <<>> /\ s[1] = ":")
    \/ /\ SchemeEnd(s) = 0
       /\ (Len(s) = 0 \/ s[1] # "/")
       /\ LET seg == IF IndexOf(s, "/") = 0 THEN s ELSE Take(s, IndexOf(s, "/") - 1)
          IN  IndexOf(seg, ":") # 0

\* u.Hostname() of url.Parse(remoteHost): the host of the authority that follows
\* "scheme://", without user information and port; empty without an authority
UrlHostname(s) ==
    LET rest == Drop(s, SchemeEnd(s))
    IN  IF Len(rest) >= 2 /\ rest[1] = "/" /\ rest[2] = "/"
        THEN LET auth0 == Drop(rest, 2)
                 auth  == IF IndexOf(auth0, "/") = 0 THEN auth0
                          ELSE Take(auth0, IndexOf(auth0, "/") - 1)
                 host  == Drop(auth, LastIndexOf(auth, "@"))
             IN  IF IndexOf(host, ":") = 0 THEN host
                 ELSE Take(host, IndexOf(host, ":") - 1)
        ELSE <<>>

\* --------------------------------------------------------------- inputs
\* ssh://root@W1.ex:22
HostUrl ==
    <<"s", "s", "h", ":", "/", "/", "r", "o", "o", "t", "@", "W", "1", ".", "e", "x", ":", "2", "2">>

\* w2.ex (no scheme)
HostPlain == <<"w", "2", ".", "e", "x">>

\* 1:2 (url.Parse fails on it)
HostBad == <<"1", ":", "2">>

RemoteHosts == {HostUrl, HostPlain, HostBad}

\* the remote host and unknown-host toggle of the joins that are followed
\* beyond the checks of the arguments
JoinTargets == {<<HostUrl, FALSE>>, <<HostPlain, TRUE>>, <<HostBad, FALSE>>}

Roles == {"server", "worker", "agent"}

\* abc123
TokenAbc == <<"a", "b", "c", "1", "2", "3">>

Ip5 == <<"1", "0", ".", "0", ".", "0", ".", "5">>

Ip6 == <<"1", "0", ".", "0", ".", "0", ".", "6">>

IpLo == <<"1", "2", "7", ".", "0", ".", "0", ".", "1">>

Ip6v6 == <<"f", "e", "8", "0", ":", ":", "1">>

\* what net.Interfaces() may report, by the name of the host's network setup:
\* the addresses of each interface, in order
Interfaces(setup) ==
    IF setup = "two-addresses"
    THEN <<[name |-> "lo", addrs |-> <<[ip |-> IpLo, v4 |-> TRUE]>>],
           [name |-> "eth0", addrs |-> <<[ip |-> Ip6, v4 |-> TRUE],
                                         [ip |-> Ip6v6, v4 |-> FALSE],
                                         [ip |-> Ip5, v4 |-> TRUE]>>]>>
    ELSE <<[name |-> "eth0", addrs |-> <<[ip |-> Ip6v6, v4 |-> FALSE]>>]>>

NetworkSetups == {"two-addresses", "no-ipv4"}

\* getGlobalNetworkInterface(): the configured interface
NetworkInterface == "eth0"

\* the outcome of CallExecCommand / CallSshCommand: an error (the command could
\* not be run), or an exit code
ExecResults == {[err |-> FALSE, exit |-> 0], [err |-> TRUE, exit |-> 0], [err |-> FALSE, exit |-> 1]}

ExecOk(r) == ~r.err /\ r.exit = 0

\* ---------------------------------------------------------------- state
VARIABLES
    installed,      \* isK3sInstalled() on the local host
    token,          \* the persisted global property "token"
    network,        \* the network setup of the local host (see Interfaces)
    localFiles,     \* files of the local host: "tmp" (the installer), "registry"
    nodes,          \* Cluster API: the node objects [name, remoteHost, labels]
    pending,        \* nodes whose runtime has started and that the API does not show yet
    hostRuntime,    \* remote hosts that run the runtime
    hostRegistry,   \* remote hosts that hold a copy of registries.yaml
    op,             \* the command of the current (or last) run
    pc,             \* the step the run is at, "idle" between runs
    in,             \* the arguments of the run
    loc,            \* the local variables of the run
    ctx,            \* "none" (no signal handler yet), "live", "cancelled"
    result,         \* "running", "ok", or the error the run returned
    runs,           \* how many commands have been started
    calls           \* the external calls the run has started, in order

hostVars == <<installed, token, network, localFiles>>

clusterVars == <<nodes, pending, hostRuntime, hostRegistry>>

runVars == <<op, pc, in, loc, ctx, result, runs, calls>>

vars == <<installed, token, network, localFiles, nodes, pending,
          hostRuntime, hostRegistry, op, pc, in, loc, ctx, result, runs, calls>>

NoInput ==
    [role |-> "", remoteHost |-> <<>>, allowUknownHosts |-> FALSE,
     taintScheduling |-> FALSE, nodeName |-> <<>>, format |-> "", value |-> <<>>]

NoLocals ==
    [serverIp |-> <<>>, token |-> <<>>, nodeName |-> <<>>, args |-> <<>>,
     nodes |-> <<>>, attempts |-> 0, answers |-> <<>>, remoteHost |-> <<>>,
     deferred |-> FALSE, i |-> 1, labels |-> {}, body |-> <<>>]

Init ==
    /\ installed = FALSE
    /\ token = <<>>
    /\ network \in NetworkSetups
    /\ localFiles = {}
    /\ nodes = {}
    /\ pending = {}
    /\ hostRuntime = {}
    /\ hostRegistry = {}
    /\ op = "none"
    /\ pc = "idle"
    /\ in = NoInput
    /\ loc = NoLocals
    /\ ctx = "none"
    /\ result = "ok"
    /\ runs = 0
    /\ calls = <<>>

\* ------------------------------------------------------- control helpers
\* one external call (a command, an API request or a file operation): the host
\* it runs on (empty: the local host), the node it addresses, whether it
\* returned without error (and, for a command, with exit code 0), and the state
\* of the cancellation context when it was started; the flags of an installer
\* call are loc.args
Call(step, host, target, ok) ==
    [step |-> step, host |-> host, target |-> target, ok |-> ok,
     afterCancel |-> (ctx = "cancelled")]

Goto(next) == [pc |-> next, result |-> "running"]

Return(msg) == [pc |-> "idle", result |-> msg]

\* a variant of CheckExec that goes on whatever the exit code
CheckExecAnyExit(r, errMsg, exitMsg, next) ==
    IF r.err THEN Return(errMsg) ELSE Goto(next)

\* if err != nil { return errMsg }; if cmd.ExitCode != 0 { return exitMsg }
CheckExec(r, errMsg, exitMsg, next) ==
    IF r.err THEN Return(errMsg)
    ELSE IF r.exit # 0 THEN Return(exitMsg)
    ELSE Goto(next)

\* the results a Cluster API call given ctx may have: a request on a cancelled
\* context fails
ApiResults == IF ctx = "cancelled" THEN {"err"} ELSE {"ok", "err"}

\* the run moves to target t; a return runs the deferred os.Remove(f.Name())
Step(t) ==
    /\ pc' = t.pc
    /\ result' = t.result

Begin(command, input, locals) ==
    /\ pc = "idle"
    /\ runs < MaxRuns
    /\ runs' = runs + 1
    /\ op' = command
    /\ in' = input
    /\ loc' = locals
    /\ calls' = <<>>

\* ----------------------------------------------------------- Cluster API
NodeNames == {nd.name : nd \in nodes}

\* GetNode(name): the node object of that name
NodeNamed(name) == CHOOSE nd \in nodes : nd.name = name

\* LabelNode(name, key, value)
WithLabel(name, key, value) ==
    {IF nd.name = name
     THEN [nd EXCEPT !.labels = {kv \in @ : kv[1] # key} \cup {<<key, value>>}]
     ELSE nd : nd \in nodes}

\* a variant of WithRemoteHost that annotates every node
WithRemoteHostAll(name, value) ==
    {[nd EXCEPT !.remoteHost = value] : nd \in nodes}

\* AnnotateNode(name, "dokku.com/remote-host", value)
WithRemoteHost(name, value) ==
    {IF nd.name = name THEN [nd EXCEPT !.remoteHost = value] ELSE nd : nd \in nodes}

\* DeleteNode(name)
WithoutNode(name) == {nd \in nodes : nd.name # name}

\* the steps that read the nodes of the Cluster API
ReadsNodes == {"idle", "wait", "labels", "annotate", "getNode", "listNodes"}

\* the control plane shows a node whose runtime has joined. A run sees the
\* nodes only through the Cluster API, so the registration is placed between
\* runs or right before a step that reads them
NodeRegisters ==
    /\ installed
    /\ pc \in ReadsNodes
    /\ \E name \in pending :
        /\ pending' = pending \ {name}
        /\ nodes' = IF name \in NodeNames THEN nodes
                    ELSE nodes \cup {[name |-> name, remoteHost |-> <<>>, labels |-> {}]}
    /\ UNCHANGED <<hostVars, hostRuntime, hostRegistry, runVars>>

\* SIGHUP, SIGINT, SIGQUIT or SIGTERM reaches the process after signal.Notify:
\* the goroutine cancels the context
Signal ==
    /\ pc # "idle"
    /\ ctx = "live"
    /\ ctx' = "cancelled"
    /\ UNCHANGED <<hostVars, clusterVars, op, runs, pc, in, loc, result, calls>>

\* --------------------------------------------------- CommandClusterRemove
\* a node name no node has
MissingName == <<"x">>

StartRemove ==
    /\ pc = "idle"
    /\ \E name \in NodeNames \cup pending \cup {MissingName} :
        Begin("remove", [NoInput EXCEPT !.nodeName = name], NoLocals)
    /\ IF ~installed
       THEN Step(Return("k3s not installed, cannot remove node")) /\ ctx' = "none"
       ELSE Step(Goto("newClient")) /\ ctx' = "live"
    /\ UNCHANGED <<hostVars, clusterVars>>

NewClientCheck(r, next) ==
    IF r = "err" THEN Return("Unable to create kubernetes client") ELSE Goto(next)

RemoveNewClient ==
    /\ op = "remove" /\ pc = "newClient"
    /\ \E r \in {"ok", "err"} : Step(NewClientCheck(r, "getNode"))
    /\ UNCHANGED <<hostVars, clusterVars, op, runs, in, loc, ctx, calls>>

\* a variant of RemoteManagedCheck that accepts every node
RemoteManagedAny(remoteHost) ==
    Goto("uninstall")

\* if node.RemoteHost == "" { return ... }
RemoteManagedCheck(remoteHost) ==
    IF remoteHost = <<>>
    THEN Return("Node is not a remote node managed by Dokku")
    ELSE Goto("uninstall")

RemoveGetNode ==
    /\ op = "remove" /\ pc = "getNode"
    /\ \E r \in ApiResults :
        LET found == r = "ok" /\ in.nodeName \in NodeNames
        IN  /\ calls' = Append(calls, Call("GetNode", <<>>, in.nodeName, found))
            /\ IF found
               THEN /\ loc' = [loc EXCEPT !.remoteHost = NodeNamed(in.nodeName).remoteHost]
                    /\ Step(RemoteManagedCheck(NodeNamed(in.nodeName).remoteHost))
               ELSE /\ Step(Return("Unable to get node"))
                    /\ UNCHANGED loc
    /\ UNCHANGED <<hostVars, clusterVars, op, runs, in, ctx>>

\* a variant of UninstallCheck that goes on whatever the exit code
UninstallCheckAnyExit(r) ==
    IF r.err THEN Return("Unable to call k3s uninstall command over ssh")
    ELSE Goto("deleteNode")

UninstallCheck(r) ==
    CheckExec(r, "Unable to call k3s uninstall command over ssh",
              "Invalid exit code from k3s uninstall command over ssh", "deleteNode")

RemoveUninstall ==
    /\ op = "remove" /\ pc = "uninstall"
    /\ \E r \in ExecResults :
        /\ calls' = Append(calls, Call("ssh /usr/local/bin/k3s-uninstall.sh",
                                       loc.remoteHost, <<>>, ExecOk(r)))
        /\ hostRuntime' = IF ExecOk(r) THEN hostRuntime \ {loc.remoteHost} ELSE hostRuntime
        /\ Step(UninstallCheck(r))
    /\ UNCHANGED <<hostVars, nodes, pending, hostRegistry, op, runs, in, loc, ctx>>

\* a variant of DeleteCheck that reports success whatever DeleteNode returned
DeleteCheckSwallowed(r) ==
    Return("ok")

DeleteCheck(r) ==
    IF r = "err" THEN Return("Unable to delete node") ELSE Return("ok")

RemoveDeleteNode ==
    /\ op = "remove" /\ pc = "deleteNode"
    /\ \E r \in ApiResults :
        /\ calls' = Append(calls, Call("DeleteNode", <<>>, in.nodeName, r = "ok"))
        /\ nodes' = IF r = "ok" THEN WithoutNode(in.nodeName) ELSE nodes
        /\ Step(DeleteCheck(r))
    /\ UNCHANGED <<hostVars, pending, hostRuntime, hostRegistry, op, runs, in, loc, ctx>>

\* ----------------------------------------------------- CommandClusterList
StartList ==
    /\ pc = "idle"
    /\ \E format \in {"stdout", "json", "yaml"} :
        /\ Begin("list", [NoInput EXCEPT !.format = format], NoLocals)
        /\ IF format # "stdout" /\ format # "json"
           THEN Step(Return("Invalid format")) /\ ctx' = "none"
           ELSE IF ~installed
           THEN Step(Return("k3s not installed, cannot list cluster nodes")) /\ ctx' = "none"
           ELSE Step(Goto("newClient")) /\ ctx' = "live"
    /\ UNCHANGED <<hostVars, clusterVars>>

ListNewClient ==
    /\ op = "list" /\ pc = "newClient"
    /\ \E r \in {"ok", "err"} : Step(NewClientCheck(r, "listNodes"))
    /\ UNCHANGED <<hostVars, clusterVars, op, runs, in, loc, ctx, calls>>

ListNodes ==
    /\ op = "list" /\ pc = "listNodes"
    /\ \E r \in ApiResults :
        /\ calls' = Append(calls, Call("ListNodes", <<>>, <<>>, r = "ok"))
        /\ Step(IF r = "err" THEN Return("Unable to list nodes") ELSE Return("ok"))
    /\ UNCHANGED <<hostVars, clusterVars, op, runs, in, loc, ctx>>

\* ------------------------------------------- CommandSet("--global", "token", v)
\* CommandPropertySet stores the value; an empty value clears the property
CommandSet(value) ==
    /\ token' = value

SetToken ==
    /\ pc = "idle"
    /\ \E value \in {<<>>, TokenAbc} :
        /\ Begin("set", [NoInput EXCEPT !.value = value], NoLocals)
        /\ CommandSet(value)
    /\ Step(Return("ok"))
    /\ ctx' = "none"
    /\ UNCHANGED <<installed, network, localFiles, clusterVars>>

\* --------------------------------------------------------- CommandUninstall
StartUninstall ==
    /\ pc = "idle"
    /\ Begin("uninstall", NoInput, NoLocals)
    /\ IF ~installed
       THEN Step(Return("k3s not installed, cannot uninstall"))
       ELSE Step(Goto("uninstaller"))
    /\ ctx' = "none"
    /\ UNCHANGED <<hostVars, clusterVars>>

\* the local uninstaller removes the runtime with its cluster state and the
\* files under /etc/rancher/k3s
UninstallRun ==
    /\ op = "uninstall" /\ pc = "uninstaller"
    /\ \E r \in ExecResults :
        /\ calls' = Append(calls, Call("/usr/local/bin/k3s-uninstall.sh", <<>>, <<>>, ExecOk(r)))
        /\ Step(IF r.err THEN Return("Unable to call k3s uninstaller command")
                ELSE IF r.exit # 0
                THEN Return("Invalid exit code from k3s uninstaller command")
                ELSE Return("ok"))
        /\ IF ExecOk(r)
           THEN /\ installed' = FALSE
                /\ localFiles' = localFiles \ {"registry"}
                /\ nodes' = {}
                /\ pending' = {}
           ELSE UNCHANGED <<installed, localFiles, nodes, pending>>
    /\ UNCHANGED <<token, network, hostRuntime, hostRegistry, op, runs, in, loc, ctx>>

\* ------------------------------------------------------------ shared data
KubernetesManifests == <<"system-upgrader">>

ServerLabels == {<<"svccontroller.k3s.cattle.io/enablelb", "true">>}

\* a variant of WorkerLabels that holds the labels of a server
WorkerLabelsOfServer ==
    ServerLabels

WorkerLabels == {<<"node-role.kubernetes.io/role", "worker">>}

\* the loop over iface.Addrs(): every IPv4 address overwrites serverIp
RECURSIVE AddrsIp(_, _)
AddrsIp(addrs, ip) ==
    IF addrs = <<>> THEN ip
    ELSE AddrsIp(Tail(addrs), IF Head(addrs).v4 THEN Head(addrs).ip ELSE ip)

\* the loop over net.Interfaces(): the interfaces named networkInterface
RECURSIVE ServerIp(_, _, _)
ServerIp(ifs, name, ip) ==
    IF ifs = <<>> THEN ip
    ELSE ServerIp(Tail(ifs), name,
                  IF Head(ifs).name = name THEN AddrsIp(Head(ifs).addrs, ip) ELSE ip)

\* serverIp on a host of each network setup
ServerIpOf ==
    [setup \in NetworkSetups |-> ServerIp(Interfaces(setup), NetworkInterface, <<>>)]

\* a variant of Deferred without the deferred removal
DeferredNothing(t, files) ==
    files

\* a return runs the deferred os.Remove(f.Name())
Deferred(t, files) ==
    IF t.pc = "idle" /\ loc.deferred THEN files \ {"tmp"} ELSE files

\* -------------------------------------------------------- CommandInitialize
\* a variant of InitPrecheck without the check of isK3sInstalled()
InitPrecheckNotInstalled(inst, ip) ==
    IF ip = <<>>
    THEN Return("Unable to determine server ip address from network-interface")
    ELSE Goto("aptUpdate")

\* the checks CommandInitialize makes before its first command
InitPrecheck(inst, ip) ==
    IF inst THEN Return("k3s already installed, cannot re-initialize k3s")
    ELSE IF ip = <<>>
    THEN Return("Unable to determine server ip address from network-interface")
    ELSE Goto("aptUpdate")

StartInit ==
    /\ pc = "idle"
    /\ \E taint \in BOOLEAN :
        Begin("init", [NoInput EXCEPT !.taintScheduling = taint],
              [NoLocals EXCEPT !.serverIp = ServerIpOf[network],
                               !.labels = ServerLabels])
    /\ Step(InitPrecheck(installed, ServerIpOf[network]))
    /\ ctx' = IF installed THEN "none" ELSE "live"
    /\ UNCHANGED <<hostVars, clusterVars>>

\* a local command of CommandInitialize that changes nothing this model records
InitExec(label, command, errMsg, exitMsg, next) ==
    /\ op = "init" /\ pc = label
    /\ \E r \in ExecResults :
        LET t == CheckExec(r, errMsg, exitMsg, next)
        IN  /\ calls' = Append(calls, Call(command, <<>>, <<>>, ExecOk(r)))
            /\ Step(t)
            /\ localFiles' = Deferred(t, localFiles)
    /\ UNCHANGED <<installed, token, network, clusterVars, op, runs, in, loc, ctx>>

\* a local file operation or library call of CommandInitialize that may fail
InitLocal(label, call, errMsg, next, made, defers) ==
    /\ op = "init" /\ pc = label
    /\ \E r \in {"ok", "err"} :
        LET t == IF r = "err" THEN Return(errMsg) ELSE Goto(next)
        IN  /\ calls' = Append(calls, Call(call, <<>>, <<>>, r = "ok"))
            /\ Step(t)
            /\ localFiles' = Deferred(t, IF r = "ok" THEN localFiles \cup made ELSE localFiles)
            /\ loc' = [loc EXCEPT !.deferred = @ \/ (defers /\ r = "ok")]
    /\ UNCHANGED <<installed, token, network, clusterVars, op, runs, in, ctx>>

InitAptUpdate ==
    InitExec("aptUpdate", "apt-get update",
             "Unable to call apt-get update command",
             "Invalid exit code from apt-get update command", "aptInstall")

InitAptInstall ==
    InitExec("aptInstall", "apt-get install",
             "Unable to call apt-get install command",
             "Invalid exit code from apt-get install command", "download")

\* what GET https://get.k3s.io may answer
DownloadResults ==
    [err : BOOLEAN, status : {StatusOK, 500}, body : {<<>>, <<"#", "!", "\n">>}]

DownloadCheck(r) ==
    IF r.err THEN Return("Unable to download k3s installer")
    ELSE IF r.status # StatusOK THEN Return("Invalid status code for k3s installer script")
    ELSE Goto("createTemp")

InitDownload ==
    /\ op = "init" /\ pc = "download"
    /\ \E r \in DownloadResults :
        /\ calls' = Append(calls, Call("GET https://get.k3s.io", <<>>, <<>>,
                                       DownloadCheck(r).pc # "idle"))
        /\ Step(DownloadCheck(r))
        /\ loc' = [loc EXCEPT !.body = IF DownloadCheck(r).pc = "idle" THEN <<>> ELSE r.body]
    /\ UNCHANGED <<hostVars, clusterVars, op, runs, in, ctx>>

InitCreateTemp ==
    InitLocal("createTemp", "os.CreateTemp",
              "Unable to create temporary file for k3s installer", "closeFile", {"tmp"}, TRUE)

InitCloseFile ==
    InitLocal("closeFile", "f.Close", "Unable to close k3s installer file", "writeFile",
              {}, FALSE)

InitWriteFile ==
    InitLocal("writeFile", "WriteSliceToFile", "Unable to write k3s installer to file",
              "stat", {}, FALSE)

\* strings.Split(s, "\n")
RECURSIVE Split(_, _)
Split(s, sep) ==
    IF IndexOf(s, sep) = 0 THEN <<s>>
    ELSE <<Take(s, IndexOf(s, sep) - 1)>> \o Split(Drop(s, IndexOf(s, sep)), sep)

\* the size of the file WriteSliceToFile leaves: every line, then a newline
RECURSIVE WrittenSize(_)
WrittenSize(lines) ==
    IF lines = <<>> THEN 0 ELSE Len(Head(lines)) + 1 + WrittenSize(Tail(lines))

\* if fi.Size() == 0 { return ... }
SizeCheck(size) ==
    IF size = 0 THEN Return("Invalid k3s installer filesize") ELSE Goto("ensureToken")

InitStat ==
    /\ op = "init" /\ pc = "stat"
    /\ \E r \in {"ok", "err"} :
        LET t == IF r = "err" THEN Return("Unable to get k3s installer file size")
                 ELSE SizeCheck(WrittenSize(Split(loc.body, "\n")))
        IN  /\ calls' = Append(calls, Call("os.Stat", <<>>, <<>>, r = "ok"))
            /\ Step(t)
            /\ localFiles' = Deferred(t, localFiles)
    /\ UNCHANGED <<installed, token, network, clusterVars, op, runs, in, loc, ctx>>

\* a variant of EnsuredToken that stores a new token on every bootstrap
EnsuredTokenAlwaysNew(persisted, generated) ==
    generated

\* the token the property store holds after lines 145-157
EnsuredToken(persisted, generated) ==
    IF Len(persisted) = 0 THEN generated ELSE persisted

\* the value of the variable token after lines 145-157: the token generated
\* inside the if is a new variable of that block
TokenVariable(persisted, generated) == persisted

InitEnsureToken ==
    /\ op = "init" /\ pc = "ensureToken"
    /\ \E b \in RandBytes, randErr \in BOOLEAN :
        IF Len(token) = 0 /\ randErr
        THEN /\ Step(Return("Unable to generate random node name"))
             /\ localFiles' = Deferred(Return(""), localFiles)
             /\ UNCHANGED <<token, loc, calls>>
        ELSE /\ Step(Goto("nodeName"))
             /\ CommandSet(EnsuredToken(token, GenToken(b)))
             /\ calls' = IF Len(token) = 0
                         THEN Append(calls, Call("CommandSet token", <<>>, <<>>, TRUE))
                         ELSE calls
             /\ loc' = [loc EXCEPT !.token = TokenVariable(token, GenToken(b))]
             /\ UNCHANGED localFiles
    /\ UNCHANGED <<installed, network, clusterVars, op, runs, in, ctx>>

\* a variant of TaintArgs that never adds the taint
TaintArgsNever(taintScheduling) ==
    <<>>

\* if taintScheduling { args = append(args, "--node-taint", ...) }
TaintArgs(taintScheduling) ==
    IF taintScheduling
    THEN <<L("--node-taint"), L("CriticalAddonsOnly=true:NoSchedule")>>
    ELSE <<>>

\* the flags CommandInitialize passes to the installer
InitArgs(nodeName, tok, taintScheduling) ==
    <<L("--cluster-init"),
      L("--disable"), L("local-storage"),
      L("--etcd-expose-metrics"),
      L("--flannel-backend=wireguard-native"),
      L("--kube-controller-manager-arg"), L("bind-address=0.0.0.0"),
      L("--kube-proxy-arg"), L("metrics-bind-address=0.0.0.0"),
      L("--kube-scheduler-arg"), L("bind-address=0.0.0.0"),
      L("--kube-controller-manager-arg"), L("terminated-pod-gc-threshold=10"),
      L("--node-name"), nodeName,
      L("--write-kubeconfig-mode"), L("0644"),
      L("--token"), tok>>
    \o TaintArgs(taintScheduling)

InitNodeName ==
    /\ op = "init" /\ pc = "nodeName"
    /\ \E b \in RandBytes, randErr \in BOOLEAN :
        LET t == IF randErr THEN Return("Unable to generate random node name")
                 ELSE Goto("installer")
            name == GenNodeName(loc.serverIp, b)
        IN  /\ Step(t)
            /\ localFiles' = Deferred(t, localFiles)
            /\ loc' = IF randErr THEN loc
                      ELSE [loc EXCEPT !.nodeName = name,
                                       !.args = InitArgs(name, loc.token, in.taintScheduling)]
    /\ UNCHANGED <<installed, token, network, clusterVars, op, runs, in, ctx, calls>>

InstallerCheck(r) ==
    CheckExec(r, "Unable to call k3s installer command",
              "Invalid exit code from k3s installer command", "touchRegistry")

\* the installer starts the runtime: the host is installed and its node will
\* register under the name given with --node-name
InitInstaller ==
    /\ op = "init" /\ pc = "installer"
    /\ \E r \in ExecResults :
        /\ calls' = Append(calls, Call("k3s installer", <<>>, loc.nodeName, ExecOk(r)))
        /\ Step(InstallerCheck(r))
        /\ localFiles' = Deferred(InstallerCheck(r), localFiles)
        /\ installed' = (installed \/ ExecOk(r))
        /\ pending' = IF ExecOk(r) THEN pending \cup {loc.nodeName} ELSE pending
    /\ UNCHANGED <<token, network, nodes, hostRuntime, hostRegistry, op, runs, in, loc, ctx>>

InitTouchRegistry ==
    InitLocal("touchRegistry", "TouchFile registries.yaml",
              "Error creating initial registries.yaml file", "setfacl", {"registry"}, FALSE)

InitSetfacl ==
    InitExec("setfacl", "setfacl", "Unable to call setfacl command",
             "Invalid exit code from setfacl command", "newClient")

InitNewClient ==
    /\ op = "init" /\ pc = "newClient"
    /\ \E r \in {"ok", "err"} :
        /\ Step(NewClientCheck(r, "manifests"))
        /\ localFiles' = Deferred(NewClientCheck(r, "manifests"), localFiles)
    /\ UNCHANGED <<installed, token, network, clusterVars, op, runs, in, loc, ctx, calls>>

\* one pass of the loop over KubernetesManifests
InitManifests ==
    /\ op = "init" /\ pc = "manifests"
    /\ \E r \in ApiResults :
        LET t == IF r = "err" THEN Return("Unable to apply kubernetes manifest")
                 ELSE IF loc.i < Len(KubernetesManifests) THEN Goto("manifests")
                 ELSE Goto("labels")
        IN  /\ calls' = Append(calls, Call("ApplyKubernetesManifest", <<>>, <<>>, r = "ok"))
            /\ Step(t)
            /\ localFiles' = Deferred(t, localFiles)
            /\ loc' = [loc EXCEPT !.i = IF r = "ok" THEN @ + 1 ELSE @]
    /\ UNCHANGED <<installed, token, network, clusterVars, op, runs, in, ctx>>

\* one pass of the loop over ServerLabels (a map: any order)
InitLabels ==
    /\ op = "init" /\ pc = "labels"
    /\ \E kv \in loc.labels, r \in ApiResults :
        LET done == r = "ok" /\ loc.nodeName \in NodeNames
            t == IF ~done THEN Return("Unable to patch node")
                 ELSE IF loc.labels = {kv} THEN Goto("traefik")
                 ELSE Goto("labels")
        IN  /\ calls' = Append(calls, Call("LabelNode", <<>>, loc.nodeName, done))
            /\ Step(t)
            /\ localFiles' = Deferred(t, localFiles)
            /\ nodes' = IF done THEN WithLabel(loc.nodeName, kv[1], kv[2]) ELSE nodes
            /\ loc' = [loc EXCEPT !.labels = @ \ {kv}]
    /\ UNCHANGED <<installed, token, network, pending, hostRuntime, hostRegistry,
                   op, runs, in, ctx>>

InitTraefik ==
    InitLocal("traefik", "os.WriteFile traefik-custom.yaml", "Unable to write traefik config",
              "helm", {}, FALSE)

InitHelm ==
    /\ op = "init" /\ pc = "helm"
    /\ \E r \in ApiResults :
        LET t == IF r = "err" THEN Return("Unable to install helm charts") ELSE Return("ok")
        IN  /\ calls' = Append(calls, Call("installHelmCharts", <<>>, <<>>, r = "ok"))
            /\ Step(t)
            /\ localFiles' = Deferred(t, localFiles)
    /\ UNCHANGED <<installed, token, network, clusterVars, op, runs, in, loc, ctx>>

\* -------------------------------------------------------- CommandClusterAdd
\* a variant of AddPrecheck without the check of the token
AddPrecheckNoToken(inst, role, tok, taintScheduling, ip) ==
    IF ~inst THEN "k3s not installed, cannot join cluster"
    ELSE IF role # "server" /\ role # "worker" THEN "Invalid server-type"
    ELSE IF taintScheduling /\ role = "worker"
    THEN "Taint scheduling can only be used on the server role"
    ELSE IF Len(ip) = 0
    THEN "Unable to determine server ip address from network-interface"
    ELSE ""

\* a variant of AddPrecheck without the check of taintScheduling against role
AddPrecheckNoTaint(inst, role, tok, taintScheduling, ip) ==
    IF ~inst THEN "k3s not installed, cannot join cluster"
    ELSE IF role # "server" /\ role # "worker" THEN "Invalid server-type"
    ELSE IF Len(tok) = 0 THEN "Missing k3s token"
    ELSE IF Len(ip) = 0
    THEN "Unable to determine server ip address from network-interface"
    ELSE ""

\* the checks of lines 284-326, in their order: the error returned, "" for none
AddPrecheck(inst, role, tok, taintScheduling, ip) ==
    IF ~inst THEN "k3s not installed, cannot join cluster"
    ELSE IF role # "server" /\ role # "worker" THEN "Invalid server-type"
    ELSE IF Len(tok) = 0 THEN "Missing k3s token"
    ELSE IF taintScheduling /\ role = "worker"
    THEN "Taint scheduling can only be used on the server role"
    ELSE IF Len(ip) = 0
    THEN "Unable to determine server ip address from network-interface"
    ELSE ""

StartAdd ==
    /\ pc = "idle"
    /\ Cardinality(NodeNames \cup pending) < MaxNodes
    /\ \E role \in Roles, remoteHost \in RemoteHosts, allow \in BOOLEAN, taint \in BOOLEAN :
        LET ip == ServerIpOf[network]
            e  == AddPrecheck(installed, role, token, taint, ip)
        IN  /\ e = "" => <<remoteHost, allow>> \in JoinTargets
            /\ Begin("add",
                     [NoInput EXCEPT !.role = role, !.remoteHost = remoteHost,
                                     !.allowUknownHosts = allow, !.taintScheduling = taint],
                     [NoLocals EXCEPT !.token = token, !.serverIp = ip,
                                      !.labels = IF role = "worker" THEN WorkerLabels
                                                 ELSE ServerLabels])
            /\ IF e # ""
               THEN Step(Return(e)) /\ ctx' = "none"
               ELSE Step(Goto("k3sVersion")) /\ ctx' = "live"
    /\ UNCHANGED <<hostVars, clusterVars>>

\* k3s version v1 (c)<newline>go
VersionGood ==
    <<"k", "3", "s", " ", "v", "e", "r", "s", "i", "o", "n", " ", "v", "1", " ",
      "(", "c", ")", "\n", "g", "o">>

\* k3s v1
VersionShort == <<"k", "3", "s", " ", "v", "1">>

VersionOutputs == {VersionGood, VersionShort, <<>>}

\* a variant of VersionCheck that goes on whatever the output
VersionCheckLenient(stdout) ==
    Goto("aptUpdate")

\* lines 355-363: the first line of the output must split into 4 fields
VersionCheck(stdout) ==
    IF Len(Split(Split(stdout, "\n")[1], " ")) # VersionFields
    THEN Return("Unable to get k3s version from k3s --version")
    ELSE Goto("aptUpdate")

AddVersion ==
    /\ op = "add" /\ pc = "k3sVersion"
    /\ \E r \in ExecResults, stdout \in VersionOutputs :
        /\ calls' = Append(calls, Call("k3s --version", <<>>, <<>>, ExecOk(r)))
        /\ Step(IF r.err THEN Return("Unable to call k3s version command")
                ELSE IF r.exit # 0 THEN Return("Invalid exit code from k3s --version command")
                ELSE VersionCheck(stdout))
        /\ loc' = [loc EXCEPT !.body = IF ExecOk(r) THEN stdout ELSE <<>>]
    /\ UNCHANGED <<hostVars, clusterVars, op, runs, in, ctx>>

\* a command run on remoteHost that changes nothing this model records
AddSsh(label, command, errMsg, exitMsg, next) ==
    /\ op = "add" /\ pc = label
    /\ \E r \in ExecResults :
        /\ calls' = Append(calls, Call(command, in.remoteHost, <<>>, ExecOk(r)))
        /\ Step(CheckExec(r, errMsg, exitMsg, next))
    /\ UNCHANGED <<hostVars, clusterVars, op, runs, in, loc, ctx>>

AddAptUpdate ==
    AddSsh("aptUpdate", "ssh apt-get update",
           "Unable to call apt-get update command over ssh",
           "Invalid exit code from apt-get update command over ssh", "aptInstall")

AddAptInstall ==
    AddSsh("aptInstall", "ssh apt-get install",
           "Unable to call apt-get install command over ssh",
           "Invalid exit code from apt-get install command over ssh", "curl")

AddCurl ==
    AddSsh("curl", "ssh curl", "Unable to call curl command over ssh",
           "Invalid exit code from curl command over ssh", "chmod")

AddChmod ==
    AddSsh("chmod", "ssh chmod", "Unable to call chmod command over ssh",
           "Invalid exit code from chmod command over ssh", "nodeName")

\* a variant of WorkerArgs that leaves the scheduler enabled and binds it
WorkerArgsWithScheduler ==
    <<L("--disable-etcd"),
      L("--disable-apiserver"),
      L("--disable-controller-manager"),
      L("--kube-scheduler-arg"), L("bind-address=0.0.0.0"),
      L("--kube-proxy-arg"), L("metrics-bind-address=0.0.0.0")>>

\* the flags of the else branch of role == "server"
WorkerArgs ==
    <<L("--disable-etcd"),
      L("--disable-apiserver"),
      L("--disable-controller-manager"),
      L("--disable-scheduler"),
      L("--kube-proxy-arg"), L("metrics-bind-address=0.0.0.0")>>

\* the flags CommandClusterAdd passes to the remote installer
JoinArgs(role, nodeName, serverIp, tok, taintScheduling) ==
    (IF role = "server" THEN <<L("server")>> ELSE <<>>)
    \o <<L("--disable"), L("local-storage"),
         L("--flannel-backend=wireguard-native"),
         L("--node-name"), nodeName,
         L("--server"), L("https://") \o serverIp \o L(":6443"),
         L("--token"), tok>>
    \o (IF role = "server"
        THEN <<L("--etcd-expose-metrics"),
               L("--kube-controller-manager-arg"), L("bind-address=0.0.0.0"),
               L("--kube-proxy-arg"), L("metrics-bind-address=0.0.0.0"),
               L("--kube-scheduler-arg"), L("bind-address=0.0.0.0"),
               L("--kube-controller-manager-arg"), L("terminated-pod-gc-threshold=10"),
               L("--write-kubeconfig-mode"), L("0644")>>
        ELSE WorkerArgs)
    \o TaintArgs(taintScheduling)

AddNodeName ==
    /\ op = "add" /\ pc = "nodeName"
    /\ \E b \in RandBytes, randErr \in BOOLEAN :
        LET name == GenNodeName(UrlHostname(in.remoteHost), b)
        IN  IF UrlParseFails(in.remoteHost)
            THEN Step(Return("failed to parse remote host")) /\ UNCHANGED loc
            ELSE IF randErr
            THEN Step(Return("Unable to generate random node name")) /\ UNCHANGED loc
            ELSE /\ Step(Goto("join"))
                 /\ loc' = [loc EXCEPT !.nodeName = name,
                                       !.args = JoinArgs(in.role, name, loc.serverIp,
                                                         loc.token, in.taintScheduling)]
    /\ UNCHANGED <<hostVars, clusterVars, op, runs, in, ctx, calls>>

JoinCheck(r) ==
    CheckExec(r, "Unable to call k3s installer command over ssh",
              "Invalid exit code from k3s installer command over ssh", "newClient")

\* the remote installer starts the runtime on remoteHost: its node will register
\* under the name given with --node-name
AddJoin ==
    /\ op = "add" /\ pc = "join"
    /\ \E r \in ExecResults :
        /\ calls' = Append(calls, Call("ssh /tmp/k3s-installer.sh", in.remoteHost,
                                       loc.nodeName, ExecOk(r)))
        /\ Step(JoinCheck(r))
        /\ hostRuntime' = IF ExecOk(r) THEN hostRuntime \cup {in.remoteHost} ELSE hostRuntime
        /\ pending' = IF ExecOk(r) THEN pending \cup {loc.nodeName} ELSE pending
    /\ UNCHANGED <<hostVars, nodes, hostRegistry, op, runs, in, loc, ctx>>

AddNewClient ==
    /\ op = "add" /\ pc = "newClient"
    /\ \E r \in {"ok", "err"} : Step(NewClientCheck(r, "wait"))
    /\ UNCHANGED <<hostVars, clusterVars, op, runs, in, loc, ctx, calls>>

\* waitForNodeToExist, its queries answering answers[1], answers[2], ...: an
\* error ends it at once, a node ends it with that node, not-found makes it
\* try again until the retry budget is used up, and then it ends with no node
RECURSIVE WaitFrom(_, _, _, _)
WaitFrom(answers, attempt, name, maxAttempts) ==
    IF attempt > maxAttempts \/ attempt > Len(answers)
    THEN [attempts |-> attempt - 1, err |-> FALSE, nodes |-> <<>>]
    ELSE IF answers[attempt] = "err"
    THEN [attempts |-> attempt, err |-> TRUE, nodes |-> <<>>]
    ELSE IF answers[attempt] = "found"
    THEN [attempts |-> attempt, err |-> FALSE, nodes |-> <<name>>]
    ELSE WaitFrom(answers, attempt + 1, name, maxAttempts)

\* a variant of WaitForNodeToExist that returns the nodes of the cluster, the
\* node it waited for not first
WaitForNodeAnyFirst(answers, name, maxAttempts) ==
    LET w      == WaitFrom(answers, 1, name, maxAttempts)
        others == NodeNames \ {name}
    IN  IF w.nodes = <<>> \/ others = {} THEN w
        ELSE [w EXCEPT !.nodes = <<CHOOSE other \in others : TRUE, name>>]

\* a variant of WaitForNodeToExist that asks once more than its budget
WaitForNodeOnceMore(answers, name, maxAttempts) ==
    WaitFrom(answers, 1, name, maxAttempts + 1)

WaitForNodeToExist(answers, name, maxAttempts) ==
    WaitFrom(answers, 1, name, maxAttempts)

\* what the queries of one wait may answer: not-found while the API does not
\* show the node, then (at the k-th query) the node or an error, or not-found
\* for as long as the waiter asks; a query on a cancelled context fails
WaitAnswers(name) ==
    LET ks == IF name \in NodeNames \/ ctx = "cancelled" THEN {1} ELSE {1, 2, RetryCount}
        last == IF ctx = "cancelled" THEN {"err"}
                ELSE IF name \in NodeNames \cup pending THEN {"err", "found"}
                ELSE {"err"}
    IN  {[i \in 1..k |-> IF i < k THEN "notfound" ELSE a] : k \in ks, a \in last}
        \cup (IF name \in NodeNames \/ ctx = "cancelled" THEN {}
              ELSE {[i \in 1..(RetryCount + 1) |-> "notfound"]})

\* a variant of JoinObserved that goes on with an empty node set
JoinObservedOrNot(w) ==
    IF w.err THEN Return("Error waiting for pod to exist") ELSE Goto("copyRegistry")

\* lines 531-536: what CommandClusterAdd makes of the waiter's result
JoinObserved(w) ==
    IF w.err THEN Return("Error waiting for pod to exist")
    ELSE IF Len(w.nodes) = 0 THEN Return("Unable to find node after joining cluster")
    ELSE Goto("copyRegistry")

\* the wait for the joined node; a node the waiter finds has registered by then
AddWait ==
    /\ op = "add" /\ pc = "wait"
    /\ \E answers \in WaitAnswers(loc.nodeName) :
        LET w == WaitForNodeToExist(answers, loc.nodeName, RetryCount)
        IN  /\ calls' = Append(calls, Call("waitForNodeToExist", <<>>, loc.nodeName, ~w.err))
            /\ loc' = [loc EXCEPT !.attempts = w.attempts, !.nodes = w.nodes,
                                  !.answers = answers]
            /\ Step(JoinObserved(w))
            /\ IF answers[Len(answers)] = "found" /\ loc.nodeName \notin NodeNames
               THEN /\ pending' = pending \ {loc.nodeName}
                    /\ nodes' = nodes \cup {[name |-> loc.nodeName, remoteHost |-> <<>>,
                                            labels |-> {}]}
               ELSE UNCHANGED <<nodes, pending>>
    /\ UNCHANGED <<hostVars, hostRuntime, hostRegistry, op, runs, in, ctx>>

AddCopyRegistry ==
    /\ op = "add" /\ pc = "copyRegistry"
    /\ \E r \in ApiResults :
        /\ calls' = Append(calls, Call("copyRegistryToNode", in.remoteHost, <<>>, r = "ok"))
        /\ Step(IF r = "err" THEN Return("Error copying registries.yaml to remote host")
                ELSE Goto("labels"))
        /\ hostRegistry' = IF r = "ok" THEN hostRegistry \cup {in.remoteHost} ELSE hostRegistry
    /\ loc' = [loc EXCEPT !.attempts = 0, !.answers = <<>>]
    /\ UNCHANGED <<hostVars, nodes, pending, hostRuntime, op, runs, in, ctx>>

\* a variant of LabelNodeCheck that goes on when LabelNode failed
LabelNodeCheckIgnored(done, rest) ==
    IF rest = {} THEN Goto("annotate") ELSE Goto("labels")

\* lines 555-562: an error of LabelNode ends the run; after the last label the
\* run goes on to the annotation
LabelNodeCheck(done, rest) ==
    IF ~done THEN Return("Unable to patch node")
    ELSE IF rest = {} THEN Goto("annotate")
    ELSE Goto("labels")

\* one pass of the loop over the labels of the role (a map: any order)
AddLabels ==
    /\ op = "add" /\ pc = "labels"
    /\ \E kv \in loc.labels, r \in ApiResults :
        LET done == r = "ok" /\ loc.nodeName \in NodeNames
        IN  /\ calls' = Append(calls, Call("LabelNode", <<>>, loc.nodeName, done))
            /\ Step(LabelNodeCheck(done, loc.labels \ {kv}))
            /\ nodes' = IF done THEN WithLabel(loc.nodeName, kv[1], kv[2]) ELSE nodes
            /\ loc' = [loc EXCEPT !.labels = @ \ {kv}]
    /\ UNCHANGED <<hostVars, pending, hostRuntime, hostRegistry, op, runs, in, ctx>>

AddAnnotate ==
    /\ op = "add" /\ pc = "annotate"
    /\ \E r \in ApiResults :
        LET done == r = "ok" /\ loc.nodes[1] \in NodeNames
        IN  /\ calls' = Append(calls, Call("AnnotateNode", <<>>, loc.nodes[1], done))
            /\ Step(IF ~done THEN Return("Unable to patch node") ELSE Return("ok"))
            /\ nodes' = IF done THEN WithRemoteHost(loc.nodes[1], in.remoteHost) ELSE nodes
    /\ UNCHANGED <<hostVars, pending, hostRuntime, hostRegistry, op, runs, in, loc, ctx>>

\* ------------------------------------------------------------ specification
Next ==
    \/ StartInit \/ InitAptUpdate \/ InitAptInstall \/ InitDownload
    \/ InitCreateTemp \/ InitCloseFile \/ InitWriteFile \/ InitStat
    \/ InitEnsureToken \/ InitNodeName \/ InitInstaller \/ InitTouchRegistry
    \/ InitSetfacl \/ InitNewClient \/ InitManifests \/ InitLabels
    \/ InitTraefik \/ InitHelm
    \/ StartAdd \/ AddVersion \/ AddAptUpdate \/ AddAptInstall \/ AddCurl
    \/ AddChmod \/ AddNodeName \/ AddJoin \/ AddNewClient \/ AddWait
    \/ AddCopyRegistry \/ AddLabels \/ AddAnnotate
    \/ StartList \/ ListNewClient \/ ListNodes
    \/ StartRemove \/ RemoveNewClient \/ RemoveGetNode \/ RemoveUninstall
    \/ RemoveDeleteNode
    \/ SetToken \/ StartUninstall \/ UninstallRun
    \/ NodeRegisters

Spec == Init /\ [][Next]_vars

\* CommandInitialize and CommandClusterAdd under interrupt signals
NextSignal ==
    \/ StartInit \/ InitAptUpdate \/ InitAptInstall \/ InitDownload
    \/ InitCreateTemp \/ InitCloseFile \/ InitWriteFile \/ InitStat
    \/ InitEnsureToken \/ InitNodeName \/ InitInstaller \/ InitTouchRegistry
    \/ InitSetfacl \/ InitNewClient \/ InitManifests \/ InitLabels
    \/ InitTraefik \/ InitHelm
    \/ StartAdd \/ AddVersion \/ AddAptUpdate \/ AddAptInstall \/ AddCurl
    \/ AddChmod \/ AddNodeName \/ AddJoin \/ AddNewClient \/ AddWait
    \/ AddCopyRegistry \/ AddLabels \/ AddAnnotate
    \/ NodeRegisters \/ Signal

SpecSignal == Init /\ [][NextSignal]_vars

\* ------------------------------------------------------------ the step lists
\* the external calls of CommandInitialize, in the order of the code
InitOrder ==
    <<"apt-get update", "apt-get install", "GET https://get.k3s.io", "os.CreateTemp",
      "f.Close", "WriteSliceToFile", "os.Stat", "CommandSet token", "k3s installer",
      "TouchFile registries.yaml", "setfacl", "ApplyKubernetesManifest", "LabelNode",
      "os.WriteFile traefik-custom.yaml", "installHelmCharts">>

\* the external calls of CommandClusterAdd, in the order of the code
AddOrder ==
    <<"k3s --version", "ssh apt-get update", "ssh apt-get install", "ssh curl",
      "ssh chmod", "ssh /tmp/k3s-installer.sh", "waitForNodeToExist",
      "copyRegistryToNode", "LabelNode", "AnnotateNode">>

\* the calls a run may leave out: CommandSet is called only without a token
Optional == {"CommandSet token"}

\* -------------------------------------------------------------- properties
\* the positions of the calls of a step in the log of the run
StepsOf(step) == {i \in 1..Len(calls) : calls[i].step = step}

Called(step) == StepsOf(step) # {}

LastCall == calls[Len(calls)]

Position(order, step) == CHOOSE k \in 1..Len(order) : order[k] = step

\* the value that follows --token in the flags of an installer call
TokenArg(args) == args[(CHOOSE i \in 1..Len(args) : args[i] = L("--token")) + 1]

\* C1: in a run of CommandClusterRemove, DeleteNode is called only directly
\* after the remote uninstall command was issued on the node's host and returned
\* without error and with exit code 0 (the runtime is gone from that host); when
\* the uninstall returned an error or a non-zero exit code, DeleteNode is not
\* called in that run and the node object is still present when the run returns.
UninstallBeforeDelete ==
    op = "remove" =>
        /\ \A i \in StepsOf("DeleteNode") :
            /\ i > 1
            /\ calls[i - 1].step = "ssh /usr/local/bin/k3s-uninstall.sh"
            /\ calls[i - 1].ok
            /\ calls[i - 1].host = loc.remoteHost
            /\ loc.remoteHost \notin hostRuntime
        /\ \A i \in StepsOf("ssh /usr/local/bin/k3s-uninstall.sh") :
            ~calls[i].ok =>
                /\ ~Called("DeleteNode")
                /\ pc = "idle"
                /\ result \in {"Unable to call k3s uninstall command over ssh",
                               "Invalid exit code from k3s uninstall command over ssh"}
                /\ in.nodeName \in NodeNames

\* a removal that uninstalled the remote runtime and then deleted the node
UninstalledThenDeleted ==
    /\ op = "remove"
    /\ result = "ok"
    /\ Called("ssh /usr/local/bin/k3s-uninstall.sh")
    /\ Called("DeleteNode")
    /\ in.nodeName \notin NodeNames

\* C2: a removal of a node that GetNode returned with an empty RemoteHost ends
\* with the not-remote-managed error after that one call: neither the remote
\* uninstall nor DeleteNode is called, and no step of the run changes the
\* cluster state.
RefusesUnmanagedNode ==
    /\ [](op = "remove" /\ calls # <<>> /\ calls[1].step = "GetNode" /\ calls[1].ok
          /\ loc.remoteHost = <<>>
          => /\ result = "Node is not a remote node managed by Dokku"
             /\ pc = "idle"
             /\ Len(calls) = 1)
    /\ [][op' = "remove" /\ runVars' # runVars
          /\ (\A i \in 1..Len(calls') : calls'[i].step = "GetNode")
          => UNCHANGED clusterVars]_vars

\* a removal of a node without RemoteHost was refused
UnmanagedNodeRefused ==
    /\ op = "remove"
    /\ result = "Node is not a remote node managed by Dokku"
    /\ calls # <<>> /\ calls[1].ok
    /\ in.nodeName \in NodeNames
    /\ NodeNamed(in.nodeName).remoteHost = <<>>
    /\ Len(calls) = 1

\* C3: a removal returns "Unable to delete node" exactly when its last call is a
\* DeleteNode that failed; the run is then no success, the uninstall before it
\* succeeded (the runtime is gone from the host), and the node object is still
\* in the API. No other failure of the removal returns that error.
DeleteFailureIsDistinct ==
    op = "remove" /\ pc = "idle" =>
        LET failedDelete == /\ calls # <<>>
                            /\ LastCall.step = "DeleteNode"
                            /\ ~LastCall.ok
        IN  /\ failedDelete <=> result = "Unable to delete node"
            /\ failedDelete =>
                /\ result # "ok"
                /\ \E i \in StepsOf("ssh /usr/local/bin/k3s-uninstall.sh") : calls[i].ok
                /\ loc.remoteHost \notin hostRuntime
                /\ in.nodeName \in NodeNames

\* a removal whose uninstall succeeded and whose DeleteNode failed
OrphanedNodeRecord ==
    /\ op = "remove"
    /\ result = "Unable to delete node"
    /\ in.nodeName \in NodeNames
    /\ loc.remoteHost \notin hostRuntime

\* C4: CommandClusterAdd with role "worker" and taintScheduling, on an installed
\* host with a token, returns the taint-scheduling error without having started
\* any external call, whatever the remote host and the unknown-host toggle.
WorkerTaintRejected ==
    op = "add" /\ in.role = "worker" /\ in.taintScheduling
    /\ installed /\ Len(loc.token) > 0
    => /\ result = "Taint scheduling can only be used on the server role"
       /\ pc = "idle"
       /\ calls = <<>>

\* a tainted worker join was rejected
TaintedWorkerRejected ==
    /\ op = "add"
    /\ in.role = "worker" /\ in.taintScheduling
    /\ in.remoteHost = HostBad /\ in.allowUknownHosts
    /\ installed /\ Len(loc.token) > 0
    /\ result = "Taint scheduling can only be used on the server role"

\* the first query of a wait that did not answer not-found, 0 when every query
\* within the retry budget answered not-found
FirstDecisive(answers, maxAttempts) ==
    LET ds == {i \in 1..Len(answers) : i <= maxAttempts /\ answers[i] # "notfound"}
    IN  IF ds = {} THEN 0 ELSE CHOOSE i \in ds : \A j \in ds : i <= j

\* C5: the wait of CommandClusterAdd with the budget RetryCount ends at the first
\* query that answers with an error (with that error; after one query when it is
\* the first) or with the node (with that node), and after exactly RetryCount
\* queries, with no node and no error, when every query answers not-found.
WaiterAttempts ==
    op = "add" /\ calls # <<>> /\ LastCall.step = "waitForNodeToExist" =>
        LET k == FirstDecisive(loc.answers, RetryCount)
        IN  /\ loc.answers[1] = "err" => loc.attempts = 1 /\ ~LastCall.ok
            /\ k = 0 => /\ loc.attempts = RetryCount
                        /\ LastCall.ok
                        /\ loc.nodes = <<>>
            /\ k # 0 => /\ loc.attempts = k
                        /\ LastCall.ok = (loc.answers[k] # "err")
                        /\ loc.nodes = IF loc.answers[k] = "found"
                                       THEN <<loc.nodeName>> ELSE <<>>

\* a wait that used up its budget on not-found answers
WaiterExhausted ==
    /\ op = "add"
    /\ calls # <<>>
    /\ LastCall.step = "waitForNodeToExist"
    /\ Len(loc.answers) > RetryCount
    /\ loc.attempts = RetryCount
    /\ loc.nodes = <<>>
    /\ LastCall.ok

\* C6: when the remote installer succeeded and every query of the wait answered
\* not-found, the join returns "Unable to find node after joining cluster", which
\* is none of the errors of the installer call; the installer was called once,
\* and neither the registry copy nor LabelNode nor AnnotateNode is called.
JoinNotObserved ==
    op = "add" /\ calls # <<>> /\ loc.answers # <<>>
    /\ (\A i \in 1..Len(loc.answers) : loc.answers[i] = "notfound")
    => /\ result = "Unable to find node after joining cluster"
       /\ result \notin {"Unable to call k3s installer command over ssh",
                         "Invalid exit code from k3s installer command over ssh"}
       /\ pc = "idle"
       /\ LastCall.step = "waitForNodeToExist"
       /\ Cardinality(StepsOf("ssh /tmp/k3s-installer.sh")) = 1
       /\ \A i \in StepsOf("ssh /tmp/k3s-installer.sh") : calls[i].ok
       /\ ~Called("copyRegistryToNode")
       /\ ~Called("LabelNode")
       /\ ~Called("AnnotateNode")

\* a join whose remote runtime runs and whose node never showed
JoinedButNotObserved ==
    /\ op = "add"
    /\ result = "Unable to find node after joining cluster"
    /\ in.remoteHost \in hostRuntime
    /\ loc.nodeName \in pending
    /\ hostRegistry = {}

\* C7: when CommandInitialize has called the installer, the value after --token
\* in its flags is not empty and is the persisted token (the one generated and
\* stored in this run, or the one found stored).
InstallerGetsClusterToken ==
    op = "init" /\ Called("k3s installer") =>
        /\ Len(TokenArg(loc.args)) > 0
        /\ TokenArg(loc.args) = token

\* C8: after a successful CommandInitialize the persisted token is not empty,
\* and the persisted token changes only by CommandSet or by the bootstrap that
\* found none and stored its generated one.
TokenStable ==
    /\ [](op = "init" /\ result = "ok" => Len(token) > 0)
    /\ [][token' # token =>
            \/ op' = "set"
            \/ /\ op = "init" /\ pc = "ensureToken"
               /\ Len(token) = 0 /\ Len(token') > 0]_vars

\* a successful bootstrap that found a token stored and kept it
BootstrapKeptToken ==
    /\ op = "init"
    /\ result = "ok"
    /\ token = TokenAbc
    /\ ~Called("CommandSet token")

\* C9: every external call of a run of CommandInitialize or CommandClusterAdd
\* was started before the cancellation of the context.
NoStepAfterCancel ==
    op \in {"init", "add"} => \A i \in 1..Len(calls) : ~calls[i].afterCancel

\* C10: in CommandInitialize and CommandClusterAdd the external calls are made
\* in the order of the code, none twice and none left out (but the optional
\* one); no call follows a call that failed, and a failed call ends the run
\* with an error; no step of a run undoes what the host and the cluster hold.
StepsInOrder ==
    /\ [](op \in {"init", "add"} =>
            LET order == IF op = "init" THEN InitOrder ELSE AddOrder
                steps == {order[k] : k \in 1..Len(order)}
            IN  /\ \A i \in 1..Len(calls) : calls[i].step \in steps
                /\ \A i, j \in 1..Len(calls) :
                    i < j => Position(order, calls[i].step) < Position(order, calls[j].step)
                /\ \A i \in 1..Len(calls) : \A k \in 1..(Position(order, calls[i].step) - 1) :
                    order[k] \in Optional \/ \E j \in 1..(i - 1) : calls[j].step = order[k]
                /\ \A i \in 1..(Len(calls) - 1) : calls[i].ok
                /\ \A i \in 1..Len(calls) :
                    ~calls[i].ok => pc = "idle" /\ result \notin {"ok", "running"})
    /\ [][op' \in {"init", "add"} /\ runVars' # runVars =>
            /\ installed => installed'
            /\ Len(token) > 0 => token' = token
            /\ "registry" \in localFiles => "registry" \in localFiles'
            /\ (NodeNames \cup pending) \subseteq ({nd.name : nd \in nodes'} \cup pending')
            /\ hostRuntime \subseteq hostRuntime'
            /\ hostRegistry \subseteq hostRegistry']_vars

\* a bootstrap that failed after the installer ran: the runtime stays installed
FailedAfterInstaller ==
    /\ op = "init"
    /\ result = "Invalid exit code from setfacl command"
    /\ ~LastCall.ok
    /\ installed

\* whether the flags hold a flag / a flag directly followed by a value
HasFlag(args, flag) == \E i \in 1..Len(args) : args[i] = L(flag)

HasPair(args, flag, value) ==
    \E i \in 1..(Len(args) - 1) : args[i] = L(flag) /\ args[i + 1] = value

\* C11: when a join with role "worker" and without taintScheduling has called
\* the remote installer, its flags hold the four --disable-... flags of a
\* worker, "--server https://A:6443" for the address A the run resolved and
\* "--token T" for the persisted token T; they hold no --node-taint and none of
\* the control-plane flags, and their only bind-address value is the
\* metrics-bind-address of --kube-proxy-arg.
WorkerJoinFlags ==
    op = "add" /\ in.role = "worker" /\ ~in.taintScheduling
    /\ Called("ssh /tmp/k3s-installer.sh")
    => /\ \A f \in {"--disable-etcd", "--disable-apiserver",
                    "--disable-controller-manager", "--disable-scheduler"} :
            HasFlag(loc.args, f)
       /\ Len(loc.serverIp) > 0
       /\ HasPair(loc.args, "--server", L("https://") \o loc.serverIp \o L(":6443"))
       /\ Len(token) > 0
       /\ HasPair(loc.args, "--token", token)
       /\ \A f \in {"--node-taint", "--etcd-expose-metrics", "--kube-controller-manager-arg",
                    "--kube-scheduler-arg", "--write-kubeconfig-mode", "server",
                    "bind-address=0.0.0.0"} :
            ~HasFlag(loc.args, f)
       /\ HasPair(loc.args, "--kube-proxy-arg", L("metrics-bind-address=0.0.0.0"))

\* a worker joined with the token abc123 from the address 10.0.0.5
WorkerJoinedWithToken ==
    /\ op = "add" /\ in.role = "worker" /\ ~in.taintScheduling
    /\ Called("ssh /tmp/k3s-installer.sh")
    /\ token = TokenAbc
    /\ loc.serverIp = Ip5
    /\ HasPair(loc.args, "--token", TokenAbc)

\* C12: the flags of every installer call of CommandInitialize and
\* CommandClusterAdd hold the pair "--node-taint
\* CriticalAddonsOnly=true:NoSchedule" exactly when taintScheduling was
\* requested (and --node-taint in no other place); the flags of a worker's
\* installer call never hold it.
TaintFlagIffRequested ==
    op \in {"init", "add"}
    /\ (Called("k3s installer") \/ Called("ssh /tmp/k3s-installer.sh"))
    => /\ HasPair(loc.args, "--node-taint", L("CriticalAddonsOnly=true:NoSchedule"))
            <=> in.taintScheduling
       /\ HasFlag(loc.args, "--node-taint") <=> in.taintScheduling
       /\ op = "add" /\ in.role = "worker" => ~HasFlag(loc.args, "--node-taint")

\* a server joined with the taint
TaintedServerJoined ==
    /\ op = "add" /\ in.role = "server" /\ in.taintScheduling
    /\ Called("ssh /tmp/k3s-installer.sh")
    /\ HasPair(loc.args, "--node-taint", L("CriticalAddonsOnly=true:NoSchedule"))

\* ip-10-0-0-5-
NamePrefix10005 == <<"i", "p", "-", "1", "0", "-", "0", "-", "0", "-", "5", "-">>

LowerHex == {"0", "1", "2", "3", "4", "5", "6", "7", "8", "9", "a", "b", "c", "d", "e", "f"}

\* C13: after a successful bootstrap without taintScheduling on a host whose
\* interface resolves to 10.0.0.5, the node name given to the installer is
\* ip-10-0-0-5- followed by the 2n lower-case hex digits of the suffix (no '.',
\* no upper-case letter); the run made one LabelNode call, addressed to that
\* name, and no AnnotateNode call, and the node holds the one Server label, no
\* Worker label and no remote host.
BootstrapNameAndLabels ==
    op = "init" /\ result = "ok" /\ ~in.taintScheduling /\ loc.serverIp = Ip5
    => /\ HasPair(loc.args, "--node-name", loc.nodeName)
       /\ \A i \in StepsOf("k3s installer") : calls[i].target = loc.nodeName
       /\ Len(loc.nodeName) = Len(NamePrefix10005) + 2 * n
       /\ Take(loc.nodeName, Len(NamePrefix10005)) = NamePrefix10005
       /\ \A i \in (Len(NamePrefix10005) + 1)..Len(loc.nodeName) : loc.nodeName[i] \in LowerHex
       /\ \A i \in 1..Len(loc.nodeName) :
            loc.nodeName[i] # "." /\ loc.nodeName[i] \notin DOMAIN LowerOf
       /\ Cardinality(StepsOf("LabelNode")) = 1
       /\ \A i \in StepsOf("LabelNode") : calls[i].target = loc.nodeName /\ calls[i].ok
       /\ ~Called("AnnotateNode")
       /\ loc.nodeName \in NodeNames
       /\ NodeNamed(loc.nodeName).labels = {<<"svccontroller.k3s.cattle.io/enablelb", "true">>}
       /\ NodeNamed(loc.nodeName).remoteHost = <<>>

\* a bootstrap on 10.0.0.5 succeeded and its node is labelled
BootstrappedOn10005 ==
    /\ op = "init" /\ result = "ok" /\ ~in.taintScheduling
    /\ loc.serverIp = Ip5
    /\ loc.nodeName \in NodeNames
    /\ Called("LabelNode")

\* C14: once CommandInitialize has created the temporary installer file, the
\* file exists while the run goes on and is gone when the run has returned,
\* with success or with the error of any later step.
TempFileRemoved ==
    op = "init" /\ Called("os.CreateTemp") =>
        /\ pc = "idle" => "tmp" \notin localFiles
        /\ pc # "idle" => "tmp" \in localFiles /\ loc.deferred

\* a bootstrap that failed at its last step, after it had created the file
FailedAfterTempFile ==
    /\ op = "init"
    /\ result = "Unable to install helm charts"
    /\ \E i \in StepsOf("os.CreateTemp") : calls[i].ok
    /\ "tmp" \notin localFiles

\* the first IPv4 address in the address list of the interface called name
FirstIPv4(ifs, name) ==
    LET named == SelectSeq(ifs, LAMBDA f : f.name = name)
        v4s   == IF named = <<>> THEN <<>>
                 ELSE SelectSeq(Head(named).addrs, LAMBDA a : a.v4)
    IN  IF v4s = <<>> THEN <<>> ELSE Head(v4s).ip

\* C15: the server address a run of CommandInitialize or CommandClusterAdd
\* resolved is the first IPv4 address in the address list of the configured
\* interface.
FirstAddressWins ==
    op \in {"init", "add"} /\ Len(loc.serverIp) > 0 =>
        loc.serverIp = FirstIPv4(Interfaces(network), NetworkInterface)

\* C16: CommandClusterAdd returns its not-installed error when the runtime is
\* not installed, else its invalid-role error when the role is neither "server"
\* nor "worker", else its missing-token error when no token is persisted, each
\* time without any external call and without a change of the cluster state;
\* no call of the remote installer has an empty value after --token.
AddPreconditions ==
    /\ [](op = "add" =>
            LET roleOk == in.role \in {"server", "worker"}
                rejected(msg) == result = msg /\ pc = "idle" /\ calls = <<>>
            IN  /\ ~installed => rejected("k3s not installed, cannot join cluster")
                /\ installed /\ ~roleOk => rejected("Invalid server-type")
                /\ installed /\ roleOk /\ Len(loc.token) = 0 => rejected("Missing k3s token")
                /\ Called("ssh /tmp/k3s-installer.sh") => Len(TokenArg(loc.args)) > 0)
    /\ [][op' = "add" /\ runVars' # runVars
          /\ result' \in {"k3s not installed, cannot join cluster", "Invalid server-type",
                          "Missing k3s token"}
          => UNCHANGED clusterVars]_vars

\* a join on an installed host without a token was rejected
MissingTokenRejected ==
    /\ op = "add"
    /\ installed
    /\ in.role \in {"server", "worker"}
    /\ token = <<>>
    /\ result = "Missing k3s token"
    /\ calls = <<>>

\* C17: when the download of the installer answered with a status other than
\* 200 or with an empty body, the run of CommandInitialize calls neither the
\* installer nor CommandSet for the token nor the Cluster API, and it does not
\* end with success.
DownloadChecked ==
    op = "init" /\ Called("GET https://get.k3s.io")
    /\ ((\E i \in StepsOf("GET https://get.k3s.io") : ~calls[i].ok) \/ loc.body = <<>>)
    => /\ ~Called("k3s installer")
       /\ ~Called("CommandSet token")
       /\ ~Called("ApplyKubernetesManifest")
       /\ ~Called("LabelNode")
       /\ ~Called("installHelmCharts")
       /\ pc = "idle" => result # "ok"

\* the names CommandInitialize gives on a host that resolves to 10.0.0.5
IsBootstrapName(name) ==
    /\ Len(name) >= Len(NamePrefix10005)
    /\ Take(name, Len(NamePrefix10005)) = NamePrefix10005

\* C18: a node gets or changes a remote host only by the AnnotateNode call of a
\* CommandClusterAdd, which sets it to the remoteHost of that run on the node
\* the run waited for; the node of CommandInitialize never has one, and a
\* removal of that node calls neither the uninstall nor DeleteNode and, when
\* GetNode returned the node, ends with the not-remote-managed error.
OriginOnlyFromJoin ==
    /\ [](\A nd \in nodes : IsBootstrapName(nd.name) => nd.remoteHost = <<>>)
    /\ [](op = "remove" /\ IsBootstrapName(in.nodeName) =>
            /\ ~Called("ssh /usr/local/bin/k3s-uninstall.sh")
            /\ ~Called("DeleteNode")
            /\ calls # <<>> /\ calls[1].ok =>
                    result = "Node is not a remote node managed by Dokku")
    /\ [][\A nd \in nodes' :
            nd.remoteHost # <<>> =>
                \/ \E old \in nodes : old.name = nd.name /\ old.remoteHost = nd.remoteHost
                \/ /\ op = "add" /\ pc = "annotate"
                   /\ nd.name = loc.nodes[1]
                   /\ nd.name = loc.nodeName
                   /\ nd.remoteHost = in.remoteHost]_vars

\* the removal of the bootstrapped node of a cluster with a joined node was
\* refused
BootstrapNodeRefused ==
    /\ op = "remove"
    /\ IsBootstrapName(in.nodeName)
    /\ in.nodeName \in NodeNames
    /\ result = "Node is not a remote node managed by Dokku"
    /\ \E nd \in nodes : nd.remoteHost # <<>>

\* the load-balancer-enablement label and the worker-role label
EnableLbLabel == <<"svccontroller.k3s.cattle.io/enablelb", "true">>

WorkerRoleLabel == <<"node-role.kubernetes.io/role", "worker">>

\* C19: after a successful CommandClusterAdd the joined node holds the label of
\* the requested role (the load-balancer label for "server", the worker-role
\* label for "worker"), applied by the one LabelNode call of the run; the
\* LabelNode step of a join adds no label but that of its role, and no step
\* removes a label from a node.
RoleLabelsApplied ==
    /\ [](op = "add" /\ result = "ok" =>
            /\ loc.nodeName \in NodeNames
            /\ (IF in.role = "server" THEN EnableLbLabel ELSE WorkerRoleLabel)
                    \in NodeNamed(loc.nodeName).labels
            /\ Cardinality(StepsOf("LabelNode")) = 1
            /\ \A i \in StepsOf("LabelNode") : calls[i].target = loc.nodeName /\ calls[i].ok)
    /\ [][op = "add" /\ pc = "labels" =>
            \A nd \in nodes' : \A old \in nodes :
                old.name = nd.name =>
                    nd.labels \subseteq
                        (old.labels \cup {IF in.role = "server" THEN EnableLbLabel
                                          ELSE WorkerRoleLabel})]_vars
    /\ [][\A old \in nodes : \A nd \in nodes' :
            nd.name = old.name => old.labels \subseteq nd.labels]_vars

\* a worker joined and holds the worker-role label only
WorkerLabelled ==
    /\ op = "add" /\ result = "ok" /\ in.role = "worker"
    /\ loc.nodeName \in NodeNames
    /\ NodeNamed(loc.nodeName).labels = {WorkerRoleLabel}

\* C20: when k3s --version returned and the first line of its output does not
\* split at single spaces into exactly 4 fields, the join has ended with the
\* version error and that call is the only call of the run: no command was run
\* on the remote host.
VersionFieldsChecked ==
    op = "add" /\ calls # <<>> /\ calls[1].step = "k3s --version" /\ calls[1].ok
    /\ Len(Split(Split(loc.body, "\n")[1], " ")) # 4
    => /\ result = "Unable to get k3s version from k3s --version"
       /\ pc = "idle"
       /\ Len(calls) = 1
       /\ \A i \in 1..Len(calls) : calls[i].host = <<>>

\* a join that ended on the output "k3s v1"
ShortVersionRejected ==
    /\ op = "add"
    /\ loc.body = VersionShort
    /\ result = "Unable to get k3s version from k3s --version"
    /\ Len(calls) = 1

\* C21: a CommandInitialize started while the runtime is installed returns the
\* already-installed error at once: the run has made no external call (no
\* command, no download, no file operation, no Cluster API call), and the
\* start leaves the persisted token, the local files, the installation and the
\* cluster as they were.
AlreadyInitializedFirst ==
    /\ [][pc = "idle" /\ op' = "init" /\ runs' # runs /\ installed =>
            /\ result' = "k3s already installed, cannot re-initialize k3s"
            /\ pc' = "idle"
            /\ calls' = <<>>
            /\ UNCHANGED <<installed, token, network, localFiles>>
            /\ UNCHANGED <<nodes, pending, hostRuntime, hostRegistry>>]_vars
    /\ [](op = "init" /\ result = "k3s already installed, cannot re-initialize k3s" =>
            pc = "idle" /\ calls = <<>>)

\* a second CommandInitialize on an initialized host was refused
AlreadyInitializedRefused ==
    /\ op = "init"
    /\ installed
    /\ token # <<>>
    /\ result = "k3s already installed, cannot re-initialize k3s"
    /\ calls = <<>>

\* the labels of a role
LabelsOf(role) == IF role = "server" THEN ServerLabels ELSE WorkerLabels

\* C22: in every reachable state a node with a non-empty remote host has had
\* the registry credentials copied to that host and holds every label of a
\* role; and a step gives a node a remote host only as the last step of a
\* CommandClusterAdd, which then returns without error, after the copy to that
\* host and one LabelNode call per label of the role on that node succeeded in
\* the same run.
AnnotationLast ==
    /\ [](\A nd \in nodes :
            nd.remoteHost # <<>> =>
                /\ nd.remoteHost \in hostRegistry
                /\ \E role \in Roles : LabelsOf(role) \subseteq nd.labels)
    /\ [][\A nd \in nodes' :
            (/\ nd.remoteHost # <<>>
             /\ ~\E old \in nodes : old.name = nd.name /\ old.remoteHost = nd.remoteHost) =>
                /\ op = "add" /\ pc = "annotate"
                /\ pc' = "idle" /\ result' = "ok"
                /\ LastCall.step = "LabelNode"
                /\ \E i \in StepsOf("copyRegistryToNode") :
                        calls[i].ok /\ calls[i].host = nd.remoteHost
                /\ LabelsOf(in.role) \subseteq nd.labels
                /\ Cardinality({i \in StepsOf("LabelNode") :
                                    calls[i].ok /\ calls[i].target = nd.name})
                        = Cardinality(LabelsOf(in.role))]_vars

\* a joined server carries its origin, its host holds the registry credentials
\* and the node holds the labels of a server
AnnotatedAfterReconcile ==
    /\ op = "add" /\ result = "ok" /\ in.role = "server"
    /\ \E nd \in nodes :
        /\ nd.remoteHost = in.remoteHost
        /\ nd.remoteHost \in hostRegistry
        /\ ServerLabels \subseteq nd.labels

\* C23: when a CommandClusterAdd has returned without error, its calls
\* addressed one node: the flags of the remote installer hold --node-name once,
\* with the generated node name; the waiter was asked for that name and the
\* first node it returned has that name; every LabelNode call and the one
\* AnnotateNode call addressed that name; and the node of that name holds the
\* labels of the role and the remote host of the run.
OneNodeAddressed ==
    op = "add" /\ result = "ok"
    => /\ HasPair(loc.args, "--node-name", loc.nodeName)
       /\ Cardinality({i \in 1..Len(loc.args) : loc.args[i] = L("--node-name")}) = 1
       /\ Cardinality(StepsOf("ssh /tmp/k3s-installer.sh")) = 1
       /\ \A i \in StepsOf("waitForNodeToExist") : calls[i].target = loc.nodeName
       /\ loc.nodes # <<>>
       /\ loc.nodes[1] = loc.nodeName
       /\ StepsOf("LabelNode") # {}
       /\ \A i \in StepsOf("LabelNode") : calls[i].target = loc.nodeName
       /\ Cardinality(StepsOf("AnnotateNode")) = 1
       /\ \A i \in StepsOf("AnnotateNode") : calls[i].target = loc.nodeName
       /\ \E nd \in nodes :
            /\ nd.name = loc.nodeName
            /\ nd.remoteHost = in.remoteHost
            /\ LabelsOf(in.role) \subseteq nd.labels

\* a join into a cluster whose API shows the bootstrapped node as well has
\* returned without error
JoinedNextToBootstrap ==
    /\ op = "add" /\ result = "ok"
    /\ \E nd \in nodes : IsBootstrapName(nd.name) /\ nd.name # loc.nodeName
    /\ LastCall.step = "AnnotateNode"
    /\ LastCall.target = loc.nodeName

=============================================================================
